---- MODULE Spec2Model ----
(***************************************************************************)
(* Model of Scripts/codexbar_cinnamon_tray.py: the placement of the        *)
(* dashboard popup (DashboardWindow.present_near_pointer and               *)
(* present_from_icon_geometry) and the rendering of a usage window         *)
(* (CodexBarTray._window_text and DashboardWindow._window_row).             *)
(*                                                                         *)
(* Coordinates are Python ints (unbounded), so no width is modelled.       *)
(* A usedPercent number is kept in tenths of a percent: 37.5 is 375.       *)
(* Texts are sequences of one-character strings.                           *)
(***************************************************************************)
EXTENDS Integers, Sequences, FiniteSets, TLC

VARIABLES
    env,        \* what the desktop answers: display, seat, pointer, monitor, icon, get_size()
    visible,    \* DashboardWindow.is_visible()
    position,   \* the last (x, y) given to DashboardWindow.move(), or NoPosition
    call,       \* the locals of the last present_* call
    payload,    \* the provider record being rendered: usage.primary, usage.secondary
    menu,       \* session, weekly: the texts _append_provider_block got from _window_text
    card,       \* the rows _provider_card got from _window_row for Session and Weekly
    menu_items, \* the children of CodexBarTray.menu
    content,    \* the children of DashboardWindow.content_box
    tray,       \* the fields of CodexBarTray, and what its icon shows
    dashboard,  \* the fields of DashboardWindow: all_payloads, panel_text, updated_label
    loop,       \* how far run has come, and the timeout it registered
    result,     \* the most recent call of update: its command results and its outcome
    click       \* the left click on the status icon being delivered

placeVars == <<env, visible, position, call>>
renderVars == <<payload, menu, card, menu_items, content>>
trayVars == <<tray, dashboard, loop, result, click>>
vars == <<env, visible, position, call, payload, menu, card, menu_items, content,
          tray, dashboard, loop, result, click>>

(***************************************************************************)
(* Program constants                                                       *)
(***************************************************************************)
margin == 8
default_width == 430
default_height == 560
pointer_offset == 24
bar_length == 10

(***************************************************************************)
(* Bounds of the model                                                     *)
(***************************************************************************)
MaxPX == 10         \* pointer / icon x is 100 * (0..MaxPX)
MaxPY == 8          \* pointer / icon y is 100 * (0..MaxPY)
Over10 == 30        \* usedPercent ranges over -Over10/10 .. 100 + Over10/10
MaxGap == 10        \* two compared readings differ by at most MaxGap/10, or are half percents

NoPosition == [x |-> 0, y |-> 0, moved |-> FALSE]
NoCall == [mode |-> "none", width |-> 0, height |-> 0, target_x |-> 0, target_y |-> 0,
           min_x |-> 0, max_x |-> 0, min_y |-> 0, max_y |-> 0]

(***************************************************************************)
(* The desktop: inputs of one placement                                    *)
(***************************************************************************)
Rect(x, y, w, h) == [x |-> x, y |-> y, width |-> w, height |-> h]

\* Gdk.Monitor.get_geometry() of the monitor at the anchor point.  Gdk answers
\* with the nearest monitor, so the point need not lie inside it.
Monitors == { Rect(x, y, w, h) : x \in {0, 1000}, y \in {0, 200},
                                 w \in {300, 1000}, h \in {40, 800} }

\* Gtk.Window.get_size(); (1, 1) is a window that was never sized.
Sizes == { <<1, 1>>, <<200, 300>>, <<300, 400>>, <<431, 561>> }

\* Gtk.StatusIcon.get_geometry(): the icon's width and height.
IconSizes == { <<20, 40>>, <<25, 24>> }

\* Which lookup answers None, if any: Gdk.Display.get_default(), get_default_seat(),
\* get_pointer() or get_monitor_at_point().
Lookups == { "ok", "no_display", "no_seat", "no_pointer", "no_monitor" }

Envs == [ lookup : Lookups,
          px : { 100 * k : k \in 0..MaxPX },
          py : { 100 * k : k \in 0..MaxPY },
          icon : IconSizes,
          monitor : Monitors,
          size : Sizes ]

\* The status icon sits with its top-left corner under the pointer.
area == Rect(env.px, env.py, env.icon[1], env.icon[2])

(***************************************************************************)
(* DashboardWindow: placement                                              *)
(***************************************************************************)
Max(a, b) == IF a >= b THEN a ELSE b
Min(a, b) == IF a <= b THEN a ELSE b

\* width, height = self.get_size(), with the defaults for an unsized window
EffectiveWidth(size) == IF size[1] <= 1 THEN default_width ELSE size[1]
EffectiveHeight(size) == IF size[2] <= 1 THEN default_height ELSE size[2]

\* Mutants of Clamp: the upper bound forgotten; min and max applied in the other order.
ClampNoUpper(v, lo, hi) == Max(lo, v)
ClampMinLast(v, lo, hi) == Min(hi, Max(lo, v))
\* max(lo, min(v, hi))
Clamp(v, lo, hi) == Max(lo, Min(v, hi))

\* Mutant of PlaceAbove: a pointer on the midpoint is placed above.
PlaceAboveOnMidpoint(py, mon) == py >= mon.y + (mon.height \div 2)
\* py > monitor_geo.y + (monitor_geo.height // 2)
PlaceAbove(py, mon) == py > mon.y + (mon.height \div 2)

\* Mutant of PointerTargetX: the 24 pixels are not added.
PointerTargetXNoOffset(px, width) == px - width
\* target_x = px - width + 24
PointerTargetX(px, width) == px - width + pointer_offset
PointerTargetY(py, height, mon) ==
    IF PlaceAbove(py, mon) THEN py - height - margin ELSE py + margin

\* Mutant of IconTargetX: one division of the difference instead of two divisions.
IconTargetXHalfDiff(a, width) == a.x + ((a.width - width) \div 2)
\* icon_center_x - (width // 2), icon_center_x = area.x + (area.width // 2)
IconTargetX(a, width) == (a.x + (a.width \div 2)) - (width \div 2)

\* Mutant of FlipBelow: the popup is never put below the icon.
FlipBelowNever(ty, mon) == FALSE
\* target_y < monitor_geo.y + margin
FlipBelow(ty, mon) == ty < mon.y + margin

IconTargetY(a, height, mon) ==
    LET above == a.y - height - margin
    IN  IF FlipBelow(above, mon) THEN a.y + a.height + margin ELSE above

MinX(mon) == mon.x + margin
MaxX(mon, width) == mon.x + mon.width - width - margin
MinY(mon) == mon.y + margin
MaxY(mon, height) == mon.y + mon.height - height - margin

\* The locals of a placement that reached self.move().
Placement(mode, tx, ty, width, height, mon) ==
    [mode |-> mode, width |-> width, height |-> height,
     target_x |-> tx, target_y |-> ty,
     min_x |-> MinX(mon), max_x |-> MaxX(mon, width),
     min_y |-> MinY(mon), max_y |-> MaxY(mon, height)]

Moved(c) == [x |-> Clamp(c.target_x, c.min_x, c.max_x),
             y |-> Clamp(c.target_y, c.min_y, c.max_y),
             moved |-> TRUE]

\* The body of present_near_pointer after self.show_all().
NearPointer ==
    IF env.lookup # "ok"
    THEN /\ call' = NoCall
         /\ UNCHANGED position
    ELSE LET width == EffectiveWidth(env.size)
             height == EffectiveHeight(env.size)
             c == Placement("pointer", PointerTargetX(env.px, width),
                            PointerTargetY(env.py, height, env.monitor),
                            width, height, env.monitor)
         IN  /\ call' = c
             /\ position' = Moved(c)

present_near_pointer ==
    /\ visible' = TRUE
    /\ NearPointer
    /\ UNCHANGED <<env, renderVars, trayVars>>

\* The body of present_from_icon_geometry after self.show_all().
FromIconGeometry ==
    IF env.lookup \in {"no_display", "no_monitor"}
    THEN NearPointer
    ELSE LET width == EffectiveWidth(env.size)
             height == EffectiveHeight(env.size)
             c == Placement("icon", IconTargetX(area, width),
                            IconTargetY(area, height, env.monitor),
                            width, height, env.monitor)
         IN  /\ call' = c
             /\ position' = Moved(c)

present_from_icon_geometry ==
    /\ visible' = TRUE
    /\ FromIconGeometry
    /\ UNCHANGED <<env, renderVars, trayVars>>

\* on_focus_out, on_key_press (Escape), on_dashboard_close: window.hide()
hide ==
    /\ visible
    /\ visible' = FALSE
    /\ UNCHANGED <<env, position, call, renderVars, trayVars>>

\* CodexBarTray.__init__ and DashboardWindow.__init__: nothing was run yet.
NoResult == [kind |-> "none", ok |-> FALSE, stdout |-> <<>>, stderr |-> <<>>,
             json |-> "none", items |-> <<>>]
Constructed(backend, show_dashboard) ==
    /\ tray = [backend |-> backend, show_dashboard |-> show_dashboard,
               last_panel_text |-> <<"C", "o", "d", "e", "x", "B", "a", "r">>, last_payloads |-> <<>>,
               status |-> IF backend = "appindicator" THEN "ACTIVE" ELSE "none",
               icon |-> "configured",
               label |-> IF backend = "statusicon" THEN <<"C", "o", "d", "e", "x", "B", "a", "r">> ELSE <<>>]
    /\ dashboard = [all_payloads |-> <<>>, panel_text |-> <<>>,
                    updated_label |-> <<"U", "p", "d", "a", "t", "e", "d", " ", "j", "u", "s", "t", " ", "n", "o", "w">>]
    /\ loop = [stage |-> "constructed", timer |-> "none"]
    /\ result = [panel |-> NoResult, usage |-> NoResult, returned |-> "none"]
    /\ click = [stage |-> "none", was_showing |-> FALSE]

\* A provider record with nothing in it: {}.
NoPayload == [provider |-> [kind |-> "absent", chars |-> <<>>],
              error |-> [kind |-> "absent", message |-> [kind |-> "absent", chars |-> <<>>]],
              primary |-> [usedPercent |-> [kind |-> "absent", tenths |-> 0],
                           resetDescription |-> [kind |-> "absent", chars |-> <<>>]],
              secondary |-> [usedPercent |-> [kind |-> "absent", tenths |-> 0],
                             resetDescription |-> [kind |-> "absent", chars |-> <<>>]],
              credits |-> [kind |-> "absent", tenths |-> 0],
              email |-> [kind |-> "absent", chars |-> <<>>]]

InitPlace ==
    /\ env \in Envs
    /\ visible = FALSE
    /\ position = NoPosition
    /\ call = NoCall
    /\ payload = NoPayload
    /\ menu = <<>>
    /\ card = <<>>
    /\ menu_items = <<>>
    /\ content = <<>>
    /\ Constructed("statusicon", FALSE)

NextPlace == present_near_pointer \/ present_from_icon_geometry \/ hide

SpecPlace == InitPlace /\ [][NextPlace]_vars

(***************************************************************************)
(* Usage windows: the inputs of one rendering                              *)
(***************************************************************************)
\* The glyphs of the text bar: FILLED stands for U+2588, EMPTY for U+00B7,
\* RESET_MARK for U+21BA.
FILLED == "#"
EMPTY == "."
RESET_MARK == "@"

Session == <<"S", "e", "s", "s", "i", "o", "n">>
Weekly == <<"W", "e", "e", "k", "l", "y">>
In2h == <<"i", "n", " ", "2", "h">>

\* window.get("usedPercent") after json.loads: the key absent, null, a string,
\* true or false, or a number kept in tenths of a percent.
Used(kind, tenths) == [kind |-> kind, tenths |-> tenths]
UsedNumbers == { Used("num", t) : t \in (0 - Over10)..(1000 + Over10) }
UsedValues == UsedNumbers \cup
    { Used("absent", 0), Used("null", 0), Used("str", 0), Used("bool", 0), Used("bool", 10) }

\* window.get("resetDescription"): the key absent, a number, "" or "in 2h".
Reset(kind, chars) == [kind |-> kind, chars |-> chars]
ResetValues == { Reset("absent", <<>>), Reset("num", <<>>), Reset("str", <<>>),
                 Reset("str", In2h) }

Window(used, reset) == [usedPercent |-> used, resetDescription |-> reset]
Windows == { Window(u, r) : u \in UsedValues, r \in ResetValues }

\* usage.get("secondary") or {}: a few windows, the empty dict among them.
SampleWindows == { Window(Used("absent", 0), Reset("absent", <<>>)),
                   Window(Used("num", 370), Reset("str", In2h)),
                   Window(Used("num", 855), Reset("absent", <<>>)),
                   Window(Used("bool", 10), Reset("str", In2h)) }

\* payload.get("provider"), payload.get("error") and its "message",
\* payload.get("credits") and its "remaining" in tenths, usage.get("accountEmail")
Text(kind, chars) == [kind |-> kind, chars |-> chars]
Error(kind, message) == [kind |-> kind, message |-> message]
Credits(kind, tenths) == [kind |-> kind, tenths |-> tenths]

ProviderRecord(provider, error, primary, secondary, credits, email) ==
    [provider |-> provider, error |-> error, primary |-> primary,
     secondary |-> secondary, credits |-> credits, email |-> email]

\* A record of provider "codex" with the two windows and nothing else.
Payload(primary, secondary) ==
    ProviderRecord(Text("str", <<"c", "o", "d", "e", "x">>), Error("absent", Text("absent", <<>>)),
                   primary, secondary, Credits("absent", 0), Text("absent", <<>>))

ProviderIds == { Text("absent", <<>>), Text("str", <<"c", "o", "d", "e", "x">>), Text("str", <<"z", "a", "i">>) }
\* error: absent, a string, {"message": "boom"}, {}
Errors == { Error("absent", Text("absent", <<>>)), Error("str", Text("absent", <<>>)),
            Error("dict", Text("str", <<"b", "o", "o", "m">>)), Error("dict", Text("absent", <<>>)) }
\* credits: absent, {"remaining": 12.5}, {"remaining": "n/a"}
CreditValues == { Credits("absent", 0), Credits("num", 125), Credits("str", 0) }
\* accountEmail: absent, "", "a@b"
Emails == { Text("absent", <<>>), Text("str", <<>>), Text("str", <<"a", "@", "b">>) }

ProviderRecords ==
    { ProviderRecord(id, e, p, w, c, m) :
        id \in ProviderIds, e \in Errors, p \in SampleWindows, w \in SampleWindows,
        c \in CreditValues, m \in Emails }

(***************************************************************************)
(* CodexBarTray._window_text and DashboardWindow._window_row               *)
(***************************************************************************)
\* isinstance(used, (int, float)): bool is a subclass of int
IsNumber(used) == used.kind \in {"num", "bool"}

\* Mutant of HasReset: the empty string passes.
HasResetAnyString(reset) == reset.kind = "str"
\* isinstance(reset_desc, str) and reset_desc
HasReset(reset) == reset.kind = "str" /\ reset.chars # <<>>

\* Mutant of round: halves go up.
round_half_up(n, d) == (2 * n + d) \div (2 * d)
\* round(n / d) of Python 3, d > 0: to the nearest integer, halves to the even one
round(n, d) ==
    LET q == n \div d
        r == n % d
    IN  IF 2 * r < d THEN q
        ELSE IF 2 * r > d THEN q + 1
        ELSE IF q % 2 = 0 THEN q ELSE q + 1

\* Mutant of TextRemaining: max(0, ...) forgotten.
TextRemainingNoFloor(tenths) == Min(100, round(1000 - tenths, 10))
\* remaining = max(0, min(100, int(round(100 - used))))
TextRemaining(tenths) == Max(0, Min(100, round(1000 - tenths, 10)))

\* Mutants of TextFilled: integer division instead of round; the used part filled.
TextFilledFloor(remaining) == Max(0, Min(bar_length, remaining \div 10))
TextFilledUsed(remaining) == Max(0, Min(bar_length, round(100 - remaining, 10)))
\* filled = max(0, min(10, int(round(remaining / 10))))
TextFilled(remaining) == Max(0, Min(bar_length, round(remaining, 10)))

RECURSIVE Repeat(_, _)
\* glyph * n
Repeat(glyph, n) == IF n <= 0 THEN <<>> ELSE <<glyph>> \o Repeat(glyph, n - 1)

Digit(d) == <<"0", "1", "2", "3", "4", "5", "6", "7", "8", "9">>[d + 1]

RECURSIVE Str(_)
\* str(n) of an int
Str(n) == IF n < 0 THEN <<"-">> \o Str(0 - n)
          ELSE IF n < 10 THEN <<Digit(n)>>
          ELSE Str(n \div 10) \o <<Digit(n % 10)>>

\* f"{s:<width}" and f"{s:>width}"
PadRight(s, width) == s \o Repeat(" ", width - Len(s))
PadLeft(s, width) == Repeat(" ", width - Len(s)) \o s

\* Mutant of Bar: the empty glyphs come first.
BarEmptyFirst(filled) == Repeat(EMPTY, bar_length - filled) \o Repeat(FILLED, filled)
\* "X" * filled + "." * (10 - filled)
Bar(filled) == Repeat(FILLED, filled) \o Repeat(EMPTY, bar_length - filled)

Unknown(title) == title \o <<":", " ", "-", "-">>

window_text(title, window) ==
    LET used == window.usedPercent
        reset_desc == window.resetDescription
        remaining == TextRemaining(used.tenths)
        filled == TextFilled(remaining)
        line == PadRight(title, 8) \o <<" ">> \o PadLeft(Str(remaining), 3)
                \o <<"%", " ", " ">> \o Bar(filled)
    IN  IF ~IsNumber(used) THEN Unknown(title)
        ELSE IF HasReset(reset_desc)
             THEN line \o <<" ", " ", RESET_MARK, " ">> \o reset_desc.chars
             ELSE line

\* remaining = max(0, min(100, float(100 - used))), in tenths
RowRemaining(tenths) == Max(0, Min(1000, 1000 - tenths))

Label(chars) == [widget |-> "Label", label |-> chars]

\* The Gtk.Box of a known window: the title, "N% left", the fraction of the
\* progress bar in thousandths, and the "Resets ..." label if there is one.
window_row(title, window) ==
    LET used == window.usedPercent
        reset_desc == window.resetDescription
        remaining == RowRemaining(used.tenths)
    IN  IF ~IsNumber(used) THEN Label(Unknown(title))
        ELSE [widget |-> "Box",
              left |-> Label(title),
              right |-> Label(Str(round(remaining, 10)) \o <<"%", " ", "l", "e", "f", "t">>),
              fraction |-> Max(0, Min(1000, remaining)),
              reset |-> IF HasReset(reset_desc)
                        THEN <<Label(<<"R", "e", "s", "e", "t", "s", " ">> \o reset_desc.chars)>>
                        ELSE <<>>]

\* _provider_title(str(payload.get("provider", "unknown"))); of the mapping,
\* the entries of the providers in ProviderIds
provider_title(provider) ==
    IF provider.kind = "absent" THEN <<"u", "n", "k", "n", "o", "w", "n">>
    ELSE IF provider.chars = <<"c", "o", "d", "e", "x">> THEN <<"C", "o", "d", "e", "x">>
    ELSE IF provider.chars = <<"z", "a", "i">> THEN <<"z", ".", "a", "i">>
    ELSE provider.chars

\* isinstance(error, dict)
IsErrorObject(error) == error.kind = "dict"
\* error.get('message', 'unknown')
ErrorMessage(error) == IF error.message.kind = "absent" THEN <<"u", "n", "k", "n", "o", "w", "n">> ELSE error.message.chars

\* isinstance(credits, dict) and isinstance(credits.get("remaining"), (int, float))
HasCredits(credits) == credits.kind = "num"
\* isinstance(email, str) and email
HasEmail(email) == email.kind = "str" /\ email.chars # <<>>

\* f"{x:.1f}" of x = tenths / 10, x >= 0
Fixed1(tenths) == Str(tenths \div 10) \o <<".", Digit(tenths % 10)>>

\* _append_info and _append_separator: the Gtk.MenuItem appended to the menu
Info(label, markup) == [item |-> "info", label |-> label, markup |-> markup]
Separator == [item |-> "separator", label |-> <<>>, markup |-> FALSE]
Bold(chars) == <<"<", "b", ">">> \o chars \o <<"<", "/", "b", ">">>
Mono(chars) == <<"<", "t", "t", ">">> \o chars \o <<"<", "/", "t", "t", ">">>

\* The items of a block after the title, when error is no dict.
UsageItems(p) ==
    <<Info(Mono(window_text(Session, p.primary)), TRUE),
      Info(Mono(window_text(Weekly, p.secondary)), TRUE)>>
    \o (IF HasCredits(p.credits)
        THEN <<Info(Mono(<<"C", "r", "e", "d", "i", "t", "s", " ", " ">> \o Fixed1(p.credits.tenths)), TRUE)>> ELSE <<>>)
    \o (IF HasEmail(p.email)
        THEN <<Info(Mono(<<"A", "c", "c", "o", "u", "n", "t", " ", " ">> \o p.email.chars), TRUE)>> ELSE <<>>)
    \o <<Separator>>

ErrorItems(p) == <<Info(<<" ", " ", "E", "r", "r", "o", "r", ":", " ">> \o ErrorMessage(p.error), FALSE), Separator>>

\* Mutant of BlockItems: the return after the error line is missing.
BlockItemsNoReturn(p) ==
    <<Info(Bold(provider_title(p.provider)), TRUE)>>
    \o (IF IsErrorObject(p.error) THEN ErrorItems(p) ELSE <<>>)
    \o UsageItems(p)
\* What _append_provider_block appends to the menu.
BlockItems(p) ==
    <<Info(Bold(provider_title(p.provider)), TRUE)>>
    \o (IF IsErrorObject(p.error) THEN ErrorItems(p) ELSE UsageItems(p))

\* What _provider_card packs into the body of the card's frame.
CardBody(p) ==
    <<Label(<<"<", "s", "p", "a", "n", " ", "w", "e", "i", "g", "h", "t", "=", "'", "b", "o", "l", "d", "'", ">">> \o provider_title(p.provider) \o <<"<", "/", "s", "p", "a", "n", ">">>)>>
    \o (IF IsErrorObject(p.error)
        THEN <<Label(<<"E", "r", "r", "o", "r", ":", " ">> \o ErrorMessage(p.error))>>
        ELSE <<window_row(Session, p.primary), window_row(Weekly, p.secondary)>>
             \o (IF HasCredits(p.credits)
                 THEN <<Label(<<"C", "r", "e", "d", "i", "t", "s", ":", " ">> \o Fixed1(p.credits.tenths))>> ELSE <<>>)
             \o (IF HasEmail(p.email)
                 THEN <<Label(<<"A", "c", "c", "o", "u", "n", "t", ":", " ">> \o p.email.chars)>> ELSE <<>>))

\* The Gtk.Frame _provider_card returns, with the children of its body.
Card(p) == [widget |-> "Frame", body |-> CardBody(p)]

\* _append_provider_block on an empty menu; menu keeps session and weekly
append_provider_block ==
    /\ menu_items' = BlockItems(payload)
    /\ menu' = IF IsErrorObject(payload.error) THEN <<>>
               ELSE <<window_text(Session, payload.primary),
                      window_text(Weekly, payload.secondary)>>
    /\ menu_items' # menu_items
    /\ UNCHANGED <<placeVars, trayVars, payload, card, content>>

\* _provider_card, packed into an empty content_box; card keeps the two rows
provider_card ==
    /\ content' = <<Card(payload)>>
    /\ card' = IF IsErrorObject(payload.error) THEN <<>>
               ELSE <<window_row(Session, payload.primary),
                      window_row(Weekly, payload.secondary)>>
    /\ content' # content
    /\ UNCHANGED <<placeVars, trayVars, payload, menu, menu_items>>

NoEnv == [lookup |-> "no_display", px |-> 0, py |-> 0, icon |-> <<20, 40>>,
          monitor |-> Rect(0, 0, 1000, 800), size |-> <<1, 1>>]

InitRenderWith(payloads) ==
    /\ payload \in payloads
    /\ menu = <<>>
    /\ card = <<>>
    /\ menu_items = <<>>
    /\ content = <<>>
    /\ Constructed("statusicon", FALSE)
    /\ env = NoEnv
    /\ visible = FALSE
    /\ position = NoPosition
    /\ call = NoCall

\* One window of every kind, next to a sample window.
InitRender == InitRenderWith({ Payload(p, s) : p \in Windows, s \in SampleWindows })

\* Two windows with numbers, to compare their renderings: every two half
\* percents, and every two tenths of a percent at most MaxGap tenths apart.
NumberPairs ==
    { <<p, s>> \in UsedNumbers \X UsedNumbers :
        \/ p.tenths % 5 = 0 /\ s.tenths % 5 = 0
        \/ (p.tenths - s.tenths) \in (0 - MaxGap)..MaxGap }

InitBlock == InitRenderWith({ Payload(Window(ps[1], Reset("absent", <<>>)),
                                      Window(ps[2], Reset("absent", <<>>))) :
                              ps \in NumberPairs })

\* Provider records with and without error, credits and account.
InitProvider == InitRenderWith(ProviderRecords)

NextRender == append_provider_block \/ provider_card

SpecRender == InitRender /\ [][NextRender]_vars
SpecBlock == InitBlock /\ [][NextRender]_vars
SpecProvider == InitProvider /\ [][NextRender]_vars

(***************************************************************************)
(* The whole model: a placement or a rendering                             *)
(***************************************************************************)
(***************************************************************************)
(* CodexBarTray: run, the periodic update, the menu and the handlers that  *)
(* show and hide the dashboard.                                            *)
(***************************************************************************)
\* Stands for U+2022 in the dashboard's updated_label.
BULLET == "*"
\* datetime.now().strftime('%H:%M:%S')
Now == <<"1", "2", ":", "0", "0", ":", "0", "0">>
ERR == <<"C", "o", "d", "e", "x", "B", "a", "r", " ", "E", "R", "R">>

\* What run_command gives: a CommandResult, with json and items for what
\* json.loads makes of its stdout.
CommandResult(ok, stdout, stderr, json, items) ==
    [kind |-> "result", ok |-> ok, stdout |-> stdout, stderr |-> stderr,
     json |-> json, items |-> items]
\* subprocess.run raises PermissionError: the CLI is there and cannot be executed.
Raised == [kind |-> "raises", ok |-> FALSE, stdout |-> <<>>, stderr |-> <<>>,
           json |-> "none", items |-> <<>>]

PanelResults ==
    { CommandResult(TRUE, <<"5", "h", " ", "6", "3", "%">>, <<>>, "none", <<>>),
      CommandResult(TRUE, <<"5", "h", " ", "1", "0", "%">>, <<>>, "none", <<>>),
      CommandResult(TRUE, <<>>, <<>>, "none", <<>>),
      CommandResult(FALSE, <<>>, <<"b", "o", "o", "m">>, "none", <<>>),
      Raised }

\* A value of the usage JSON that is no object: the string "n/a", the number 1.
NotAnObject == [string |-> <<"n", "/", "a">>]
NotARecord == [number |-> 1]

RecordA == Payload(Window(Used("num", 375), Reset("str", In2h)),
                   Window(Used("absent", 0), Reset("absent", <<>>)))
RecordB == Payload(Window(Used("num", 1000), Reset("absent", <<>>)),
                   Window(Used("num", 0), Reset("absent", <<>>)))
\* {"provider": "zai", "error": {"message": "boom"}}
RecordE == ProviderRecord(Text("str", <<"z", "a", "i">>), Error("dict", Text("str", <<"b", "o", "o", "m">>)),
                          Window(Used("absent", 0), Reset("absent", <<>>)),
                          Window(Used("absent", 0), Reset("absent", <<>>)),
                          Credits("absent", 0), Text("absent", <<>>))
\* {"provider": "codex", "usage": {"primary": "n/a"}}
RecordM == ProviderRecord(Text("str", <<"c", "o", "d", "e", "x">>), Error("absent", Text("absent", <<>>)),
                          NotAnObject,
                          Window(Used("absent", 0), Reset("absent", <<>>)),
                          Credits("absent", 0), Text("absent", <<>>))

UsageResults ==
    { CommandResult(FALSE, <<>>, <<"e", "r", "r">>, "none", <<>>),
      CommandResult(TRUE, <<"{", "}">>, <<>>, "object", <<>>),
      CommandResult(TRUE, <<"n", "o", "j", "s", "o", "n">>, <<>>, "invalid", <<>>),
      CommandResult(TRUE, <<"[", "]">>, <<>>, "array", <<>>),
      CommandResult(TRUE, <<"[", "A", "]">>, <<>>, "array", <<RecordA>>),
      CommandResult(FALSE, <<"[", "1", ",", "B", "]">>, <<"w", "a", "r", "n">>, "array", <<NotARecord, RecordB>>),
      CommandResult(TRUE, <<"[", "E", "]">>, <<>>, "array", <<RecordE>>),
      CommandResult(TRUE, <<"[", "A", ",", "M", "]">>, <<>>, "array", <<RecordA, RecordM>>) }

\* isinstance(item, dict)
IsRecord(item) == "provider" \in DOMAIN item
\* _parse_usage_payload: None, or the list of the array's objects
parse_usage_payload(usage) ==
    IF ~usage.ok /\ usage.stdout = <<>> THEN [is_none |-> TRUE, list |-> <<>>]
    ELSE IF usage.json = "array"
         THEN [is_none |-> FALSE, list |-> SelectSeq(usage.items, IsRecord)]
         ELSE [is_none |-> TRUE, list |-> <<>>]
\* self._parse_usage_payload(usage) or []
Payloads(usage) ==
    LET parsed == parse_usage_payload(usage)
    IN  IF parsed.is_none \/ parsed.list = <<>> THEN <<>> ELSE parsed.list

\* window.get of a window that is no dict raises AttributeError, in
\* _window_text and in _window_row alike.
IsObject(window) == "usedPercent" \in DOMAIN window
Raises(p) == ~IsErrorObject(p.error) /\ ~(IsObject(p.primary) /\ IsObject(p.secondary))
AnyRaises(payloads) == \E i \in 1..Len(payloads) : Raises(payloads[i])

\* The loop of rebuild_menu over the payloads, as far as it gets: of a
\* record that raises, the title is appended and nothing after it.
RECURSIVE Blocks(_)
Blocks(payloads) ==
    IF payloads = <<>> THEN <<>>
    ELSE IF Raises(Head(payloads))
         THEN <<Info(Bold(provider_title(Head(payloads).provider)), TRUE)>>
         ELSE BlockItems(Head(payloads)) \o Blocks(Tail(payloads))

\* The loop of _render_filtered over the payloads, as far as it gets.
RECURSIVE Cards(_)
Cards(payloads) ==
    IF payloads = <<>> THEN <<>>
    ELSE IF Raises(Head(payloads)) THEN <<>>
         ELSE <<Card(Head(payloads))>> \o Cards(Tail(payloads))

\* _append_action
Action(label) == [item |-> "action", label |-> label, markup |-> FALSE]

\* The children of the menu when rebuild_menu ends, by return or by exception.
rebuild_menu(text, panel, usage, payloads) ==
    <<Info(Bold(<<"C", "o", "d", "e", "x", "B", "a", "r">>), TRUE), Info(Mono(text), TRUE),
      Info(<<"U", "p", "d", "a", "t", "e", "d", " ">> \o Now, FALSE), Separator>>
    \o (IF ~panel.ok /\ panel.stderr # <<>>
        THEN <<Info(<<"p", "a", "n", "e", "l", ":", " ">> \o panel.stderr, FALSE)>> ELSE <<>>)
    \o (IF payloads = <<>>
        THEN <<Info(IF usage.stderr # <<>> THEN usage.stderr
                    ELSE <<"U", "n", "a", "b", "l", "e", " ", "t", "o", " ", "p", "a", "r", "s", "e", " ", "u", "s", "a", "g", "e", " ", "J", "S", "O", "N", ".">>, FALSE)>>
        ELSE Blocks(payloads))
    \o (IF AnyRaises(payloads) THEN <<>>
        ELSE <<Separator, Action(<<"O", "p", "e", "n", " ", "D", "a", "s", "h", "b", "o", "a", "r", "d">>), Action(<<"R", "e", "f", "r", "e", "s", "h">>),
               Action(<<"Q", "u", "i", "t">>)>>)

\* update: the panel text after the panel command
PanelText(panel) == IF panel.ok /\ panel.stdout # <<>> THEN panel.stdout ELSE ERR

\* update: the fields of the tray after lines 543 to 565
Updated(panel, payloads) ==
    LET good == panel.ok /\ panel.stdout # <<>>
    IN  [tray EXCEPT !.last_panel_text = PanelText(panel),
                     !.status = IF tray.backend = "appindicator"
                                THEN (IF good THEN "ACTIVE" ELSE "ATTENTION")
                                ELSE @,
                     !.icon = IF good THEN "configured" ELSE "dialog-warning",
                     !.label = PanelText(panel),
                     !.last_payloads = payloads]

UpdateRaises(panel, usage) == panel.kind = "raises" \/ AnyRaises(Payloads(usage))

\* set_payloads with an empty search entry: the fields are stored, the cards
\* are packed, and show_all() shows the window unless a card raised.
set_payloads(payloads, text) ==
    /\ dashboard' = [all_payloads |-> payloads, panel_text |-> text,
                     updated_label |-> <<"U", "p", "d", "a", "t", "e", "d", " ">> \o Now
                                       \o <<" ", " ", BULLET, " ", " ">> \o text]
    /\ content' = IF payloads = <<>> THEN <<Label(<<"N", "o", " ", "m", "a", "t", "c", "h", "i", "n", "g", " ", "p", "r", "o", "v", "i", "d", "e", "r", "s", ".">>)>>
                  ELSE Cards(payloads)
    /\ visible' = (visible \/ ~AnyRaises(payloads))

\* update, lines 543 to 566: the commands, the tray's fields and the menu
Refresh(panel, usage) ==
    IF panel.kind = "raises"
    THEN /\ result' = [panel |-> panel, usage |-> NoResult, returned |-> "raised"]
         /\ UNCHANGED <<tray, menu_items>>
    ELSE LET payloads == Payloads(usage)
         IN  /\ tray' = Updated(panel, payloads)
             /\ menu_items' = rebuild_menu(PanelText(panel), panel, usage, payloads)
             /\ result' = [panel |-> panel, usage |-> usage,
                           returned |-> IF AnyRaises(payloads) THEN "raised"
                                        ELSE "True"]

\* update, lines 567 and 568
RefreshDashboard(panel, usage) ==
    IF visible /\ ~UpdateRaises(panel, usage)
    THEN set_payloads(Payloads(usage), PanelText(panel))
    ELSE UNCHANGED <<dashboard, content, visible>>

NoClick == [stage |-> "none", was_showing |-> FALSE]
\* Gtk.main() runs, and no click on the status icon is half delivered.
Idle == loop.stage = "running" /\ click.stage # "focus_out"

\* run, up to Gtk.main(); an exception of the first update ends the program
run ==
    /\ loop.stage = "constructed"
    /\ \E panel \in PanelResults, usage \in UsageResults :
          /\ Refresh(panel, usage)
          /\ IF UpdateRaises(panel, usage)
             THEN /\ loop' = [stage |-> "crashed", timer |-> "none"]
                  /\ UNCHANGED <<dashboard, content, visible, position, call>>
             ELSE /\ loop' = [stage |-> "running", timer |-> "armed"]
                  /\ IF tray.show_dashboard
                     THEN /\ set_payloads(Payloads(usage), PanelText(panel))
                          /\ NearPointer
                     ELSE UNCHANGED <<dashboard, content, visible, position, call>>
    /\ UNCHANGED <<env, payload, menu, card, click>>

\* update as the callback of GLib.timeout_add_seconds: a call that does not
\* return True removes the timeout
update ==
    /\ Idle
    /\ loop.timer = "armed"
    /\ \E panel \in PanelResults, usage \in UsageResults :
          /\ Refresh(panel, usage)
          /\ RefreshDashboard(panel, usage)
          /\ loop' = [loop EXCEPT !.timer = IF UpdateRaises(panel, usage)
                                            THEN "removed" ELSE "armed"]
    /\ click' = NoClick
    /\ UNCHANGED <<env, position, call, payload, menu, card>>

\* on_refresh and manual_refresh: update, called from a menu item or a button
on_refresh ==
    /\ Idle
    /\ \E panel \in PanelResults, usage \in UsageResults :
          /\ Refresh(panel, usage)
          /\ RefreshDashboard(panel, usage)
    /\ click' = NoClick
    /\ UNCHANGED <<env, position, call, payload, menu, card, loop>>

on_open_dashboard ==
    /\ Idle
    /\ set_payloads(tray.last_payloads, tray.last_panel_text)
    /\ IF AnyRaises(tray.last_payloads) THEN UNCHANGED <<position, call>>
       ELSE NearPointer
    /\ click' = NoClick
    /\ UNCHANGED <<env, payload, menu, card, menu_items, tray, loop, result>>

\* The activate signal of a left click on the status icon.
on_status_icon_activate ==
    /\ loop.stage = "running"
    /\ tray.backend = "statusicon"
    /\ click' = [stage |-> "done",
                 was_showing |-> IF click.stage = "focus_out" THEN click.was_showing
                                 ELSE visible]
    /\ IF visible
       THEN /\ visible' = FALSE
            /\ UNCHANGED <<dashboard, content, position, call>>
       ELSE /\ set_payloads(tray.last_payloads, tray.last_panel_text)
            /\ IF AnyRaises(tray.last_payloads) THEN UNCHANGED <<position, call>>
               ELSE \E ok \in BOOLEAN : IF ok THEN FromIconGeometry ELSE NearPointer
    /\ UNCHANGED <<env, payload, menu, card, menu_items, tray, loop, result>>

\* The dashboard loses the focus: to another window, or to the status icon
\* by the press of a left click whose activate signal follows.
on_focus_out ==
    /\ loop.stage = "running"
    /\ click.stage # "focus_out"
    /\ visible
    /\ visible' = FALSE
    /\ \E by_click \in (IF tray.backend = "statusicon" THEN BOOLEAN ELSE {FALSE}) :
          click' = IF by_click THEN [stage |-> "focus_out", was_showing |-> TRUE]
                   ELSE NoClick
    /\ UNCHANGED <<env, position, call, renderVars, tray, dashboard, loop, result>>

\* on_key_press with the Escape key
on_key_press ==
    /\ Idle
    /\ visible
    /\ visible' = FALSE
    /\ click' = NoClick
    /\ UNCHANGED <<env, position, call, renderVars, tray, dashboard, loop, result>>

on_dashboard_close ==
    /\ Idle
    /\ visible
    /\ visible' = FALSE
    /\ click' = NoClick
    /\ UNCHANGED <<env, position, call, renderVars, tray, dashboard, loop, result>>

\* on_quit and exit_app: Gtk.main_quit()
on_quit ==
    /\ Idle
    /\ loop' = [loop EXCEPT !.stage = "quit"]
    /\ click' = NoClick
    /\ UNCHANGED <<env, visible, position, call, renderVars, tray, dashboard, result>>

\* One desktop with a pointer and a monitor, and one without a display.
TrayEnvs ==
    { [lookup |-> l, px |-> 600, py |-> 700, icon |-> <<20, 40>>,
       monitor |-> Rect(0, 0, 1000, 800), size |-> <<431, 561>>] :
        l \in {"ok", "no_display"} }

InitTray ==
    /\ env \in TrayEnvs
    /\ visible = FALSE
    /\ position = NoPosition
    /\ call = NoCall
    /\ payload = NoPayload
    /\ menu = <<>>
    /\ card = <<>>
    /\ menu_items = <<>>
    /\ content = <<>>
    /\ \E backend \in {"statusicon", "appindicator"}, show_dashboard \in BOOLEAN :
          Constructed(backend, show_dashboard)

NextTray ==
    \/ run
    \/ update
    \/ on_refresh
    \/ on_open_dashboard
    \/ on_status_icon_activate
    \/ on_focus_out
    \/ on_key_press
    \/ on_dashboard_close
    \/ on_quit

SpecTray == InitTray /\ [][NextTray]_vars

Init == InitPlace \/ InitRender \/ InitBlock \/ InitProvider \/ InitTray
Next == NextPlace \/ NextRender \/ NextTray
Spec == Init /\ [][Next]_vars

(***************************************************************************)
(* Claims about the placement, checked under SpecPlace                     *)
(***************************************************************************)
mon == env.monitor
Placed == call.mode # "none"
FitsMonitor ==
    /\ call.width + 2 * 8 <= mon.width
    /\ call.height + 2 * 8 <= mon.height

\* v brought into [lo, hi], for lo <= hi
Within(v, lo, hi) == IF v < lo THEN lo ELSE IF v > hi THEN hi ELSE v

\* C1: whenever the popup with its two margins fits the monitor, the position
\* given to move() keeps the whole popup rectangle inside the monitor, and in
\* both modes it is the unclamped target brought into
\* [monitor.x + 8, monitor.x + monitor.width - popup.width - 8], respectively
\* [monitor.y + 8, monitor.y + monitor.height - popup.height - 8].
C1_PopupInsideMonitor ==
    (Placed /\ FitsMonitor) =>
        /\ position.moved
        /\ mon.x <= position.x
        /\ position.x + call.width <= mon.x + mon.width
        /\ mon.y <= position.y
        /\ position.y + call.height <= mon.y + mon.height
        /\ position.x = Within(call.target_x, mon.x + 8, mon.x + mon.width - call.width - 8)
        /\ position.y = Within(call.target_y, mon.y + 8, mon.y + mon.height - call.height - 8)

\* The unclamped target overflows the monitor to the right and above, and is clamped.
C1_Witness ==
    /\ Placed
    /\ FitsMonitor
    /\ call.target_x + call.width > mon.x + mon.width
    /\ call.target_y < mon.y
    /\ position.x < call.target_x
    /\ position.y > call.target_y

PointerExample ==
    /\ env.px = 900
    /\ env.py = 700
    /\ mon = Rect(0, 0, 1000, 800)
    /\ env.size = <<300, 400>>
    /\ call.mode = "pointer"

\* C4 as stated: the pointer-mode example ends at x = 624, y = 392, from the
\* unclamped x = 624, y = 708 (below the pointer).
C4_ExampleAsStated ==
    PointerExample =>
        /\ call.target_x = 624
        /\ call.target_y = 708
        /\ position.x = 624
        /\ position.y = 392

\* C4 amended: the pointer (900, 700) is past the midpoint 400, so the popup
\* is placed above it: unclamped x = 624, y = 700 - 400 - 8 = 292, which the
\* clamp to [8, 692] x [8, 392] leaves alone; move() gets (624, 292).
C4_ExampleAbovePointer ==
    PointerExample =>
        /\ call.target_x = 624
        /\ call.target_y = 292
        /\ call.max_x = 692
        /\ call.max_y = 392
        /\ position = [x |-> 624, y |-> 292, moved |-> TRUE]

C4_Witness == PointerExample /\ visible /\ position.moved

IconExample ==
    /\ area = Rect(100, 0, 20, 40)
    /\ mon = Rect(0, 0, 1000, 40)
    /\ env.size = <<200, 300>>
    /\ call.mode = "icon"

\* C5 as stated: in the rectangle-mode example the popup's vertical position is 48.
C5_ExampleAsStated == IconExample => position.y = 48

\* C5 amended: the above-placement y = -308 is rejected and the unclamped
\* target is y = 48; the monitor (height 40) is lower than the popup, so the
\* final clamp pins the position given to move() at y = 0 + 8 = 8 (x = 10).
C5_ExampleFlipThenClamp ==
    IconExample =>
        /\ area.y - call.height - 8 = -308
        /\ call.target_y = 48
        /\ call.target_x = 10
        /\ position = [x |-> 10, y |-> 8, moved |-> TRUE]

C5_Witness == IconExample /\ visible /\ position.moved

\* C6: in pointer mode the unclamped target is x = px - width + 24, and
\* y = py - height - 8 exactly when py > monitor.y + monitor.height \div 2,
\* otherwise (the midpoint included) y = py + 8.
C6_PointerTarget ==
    call.mode = "pointer" =>
        /\ call.target_x = env.px - call.width + 24
        /\ (env.py > mon.y + (mon.height \div 2)) => call.target_y = env.py - call.height - 8
        /\ (env.py <= mon.y + (mon.height \div 2)) => call.target_y = env.py + 8
        /\ (call.target_y = env.py - call.height - 8) => env.py > mon.y + (mon.height \div 2)

\* The pointer is exactly on the monitor's vertical midpoint and the popup goes below it.
C6_Witness ==
    /\ call.mode = "pointer"
    /\ env.py = mon.y + (mon.height \div 2)
    /\ call.target_y = env.py + 8

\* C7: in rectangle mode the unclamped x is area.x + area.width \div 2 -
\* width \div 2, and the unclamped y is area.y - height - 8, unless that is
\* less than monitor.y + 8: then, and only then, it is area.y + area.height + 8.
C7_IconTarget ==
    call.mode = "icon" =>
        LET above == area.y - call.height - 8
            below == area.y + area.height + 8
        IN  /\ call.target_x = area.x + (area.width \div 2) - (call.width \div 2)
            /\ (above < mon.y + 8) => call.target_y = below
            /\ (above >= mon.y + 8) => call.target_y = above
            /\ (call.target_y = below) => above < mon.y + 8

\* A popup of odd width over an icon of even width, placed above the icon.
C7_Witness ==
    /\ call.mode = "icon"
    /\ call.width % 2 = 1
    /\ area.width % 2 = 0
    /\ call.target_y = area.y - call.height - 8

\* C8: on an axis where the monitor is smaller than the popup plus its two
\* margins, the coordinate given to move() is monitor.x + 8 (monitor.y + 8),
\* whatever the pointer or the icon rectangle.
C8_SmallMonitorPinned ==
    Placed =>
        /\ (mon.width < call.width + 2 * 8) => position.x = mon.x + 8
        /\ (mon.height < call.height + 2 * 8) => position.y = mon.y + 8

\* Both axes are too small, and the unclamped target was not at the pinned place.
C8_Witness ==
    /\ Placed
    /\ mon.width < call.width + 2 * 8
    /\ mon.height < call.height + 2 * 8
    /\ call.min_x > call.max_x
    /\ call.target_x > mon.x + 8
    /\ call.target_y > call.max_y
    /\ call.target_y # mon.y + 8
    /\ position = [x |-> mon.x + 8, y |-> mon.y + 8, moved |-> TRUE]

(***************************************************************************)
(* Claims about the rendering, checked under SpecRender and SpecBlock      *)
(***************************************************************************)
MenuBuilt == menu # <<>>
CardBuilt == card # <<>>
TitleOf(i) == IF i = 1 THEN Session ELSE Weekly
WindowOf(i) == IF i = 1 THEN payload.primary ELSE payload.secondary
TenthsOf(i) == WindowOf(i).usedPercent.tenths
\* usedPercent is a JSON number
Numeric(i) == WindowOf(i).usedPercent.kind = "num"
InRange(i) == Numeric(i) /\ 0 <= TenthsOf(i) /\ TenthsOf(i) <= 1000

\* n / d to the nearest integer, a half to the even neighbour
NearestEven(n, d) ==
    CHOOSE k \in ((n \div d) - 1)..((n \div d) + 1) :
        /\ 2 * (k * d - n) <= d
        /\ 2 * (n - k * d) <= d
        /\ (2 * (k * d - n) = d \/ 2 * (n - k * d) = d) => k % 2 = 0

FilledGlyphs(text) == Cardinality({ i \in DOMAIN text : text[i] = FILLED })

DigitChars == {"0", "1", "2", "3", "4", "5", "6", "7", "8", "9"}
DigitValue(c) ==
    CASE c = "0" -> 0 [] c = "1" -> 1 [] c = "2" -> 2 [] c = "3" -> 3 [] c = "4" -> 4
      [] c = "5" -> 5 [] c = "6" -> 6 [] c = "7" -> 7 [] c = "8" -> 8 [] c = "9" -> 9

RECURSIVE DigitsValue(_)
DigitsValue(chars) ==
    IF chars = <<>> THEN 0
    ELSE 10 * DigitsValue(SubSeq(chars, 1, Len(chars) - 1)) + DigitValue(chars[Len(chars)])

\* The number a text of digits reads as; -1 if it is no such text.
ReadNumber(chars) ==
    IF chars # <<>> /\ \A i \in DOMAIN chars : chars[i] \in DigitChars
    THEN DigitsValue(chars) ELSE -1

NotSpace(c) == c # " "
\* The percentage of a menu text: columns 10 to 12, before the "%".
TextPercent(text) == ReadNumber(SelectSeq(SubSeq(text, 10, 12), NotSpace))
\* The percentage of a dashboard row: what stands before "% left".
RowPercent(row) == ReadNumber(SubSeq(row.right.label, 1, Len(row.right.label) - 6))

\* C2 as stated: for every usedPercent in [0, 100], multiples of 0.1 included,
\* the bar has round((100 - usedPercent) / 100 * 10) filled glyphs, one
\* rounding of the exact quotient.
C2_FilledAsStated ==
    MenuBuilt => \A i \in 1..2 :
        InRange(i) => FilledGlyphs(menu[i]) = NearestEven(1000 - TenthsOf(i), 100)

\* C2 amended: for every usedPercent in [0, 100] the bar has round(R / 10)
\* filled glyphs, where R = round(100 - usedPercent) is the displayed
\* percentage (two roundings); for an integer usedPercent that is
\* round((100 - usedPercent) / 100 * 10).
C2_FilledTwoRoundings ==
    MenuBuilt => \A i \in 1..2 :
        InRange(i) =>
            /\ FilledGlyphs(menu[i]) = NearestEven(NearestEven(1000 - TenthsOf(i), 10), 10)
            /\ (TenthsOf(i) % 10 = 0) =>
                   FilledGlyphs(menu[i]) = NearestEven(1000 - TenthsOf(i), 100)

\* usedPercent = 85.4: 14.6 left is shown as 15%, and 1.5 rounds to 2 glyphs,
\* where one rounding of 1.46 gives 1.
C2_Witness ==
    /\ MenuBuilt
    /\ Numeric(1)
    /\ TenthsOf(1) = 854
    /\ TextPercent(menu[1]) = 15
    /\ FilledGlyphs(menu[1]) = 2
    /\ NearestEven(1000 - TenthsOf(1), 100) = 1

\* C3: of two usedPercent values in [0, 100], the greater one never gets more
\* filled glyphs nor a greater displayed remaining percentage, in the menu
\* text and in the dashboard row.
C3_BarMonotone ==
    \A i, j \in 1..2 :
        (InRange(i) /\ InRange(j) /\ TenthsOf(i) <= TenthsOf(j)) =>
            /\ MenuBuilt =>
                   /\ FilledGlyphs(menu[j]) <= FilledGlyphs(menu[i])
                   /\ TextPercent(menu[j]) <= TextPercent(menu[i])
            /\ CardBuilt =>
                   /\ RowPercent(card[j]) <= RowPercent(card[i])
                   /\ card[j].fraction <= card[i].fraction

\* Usage grew across a tie of the rounding and the bar lost a glyph.
C3_Witness ==
    /\ MenuBuilt
    /\ CardBuilt
    /\ TenthsOf(1) = 745
    /\ TenthsOf(2) = 755
    /\ FilledGlyphs(menu[1]) = 3
    /\ FilledGlyphs(menu[2]) = 2
    /\ RowPercent(card[2]) < RowPercent(card[1])

\* C9: when usedPercent is absent or not a number, the menu text and the
\* dashboard row are exactly "{title}: --", whatever resetDescription is.
C9_UnknownUsage ==
    \A i \in 1..2 :
        ~Numeric(i) =>
            /\ MenuBuilt => menu[i] = TitleOf(i) \o <<":", " ", "-", "-">>
            /\ CardBuilt => card[i] = [widget |-> "Label",
                                       label |-> TitleOf(i) \o <<":", " ", "-", "-">>]

BarOf(text) == SubSeq(text, 16, 25)
GlyphCount(text) == Cardinality({ i \in DOMAIN text : text[i] \in {FILLED, EMPTY} })

\* C11: for every number usedPercent the bar is `filled` filled glyphs
\* followed by 10 - filled empty glyphs: the text holds exactly 10 glyphs, in
\* one run, and no empty glyph precedes a filled one; usedPercent = 37 gives
\* 63% and 6 filled glyphs followed by 4 empty ones.
C11_BarComposition ==
    MenuBuilt => \A i \in 1..2 :
        Numeric(i) =>
            LET bar == BarOf(menu[i])
                filled == FilledGlyphs(menu[i])
            IN  /\ Len(menu[i]) >= 25
                /\ GlyphCount(menu[i]) = 10
                /\ \A k \in 1..10 : bar[k] = IF k <= filled THEN FILLED ELSE EMPTY
                /\ \A k, l \in 1..10 : (bar[k] = EMPTY /\ bar[l] = FILLED) => l < k
                /\ (TenthsOf(i) = 370) =>
                       /\ TextPercent(menu[i]) = 63
                       /\ bar = <<FILLED, FILLED, FILLED, FILLED, FILLED, FILLED,
                                  EMPTY, EMPTY, EMPTY, EMPTY>>

\* usedPercent = 37 is rendered with a bar of both glyphs.
C11_Witness ==
    /\ MenuBuilt
    /\ Numeric(1)
    /\ TenthsOf(1) = 370
    /\ FilledGlyphs(menu[1]) = 6
    /\ BarOf(menu[1])[7] = EMPTY

ResetOf(i) == WindowOf(i).resetDescription
\* resetDescription is a string that is not empty
ResetGiven(i) == ResetOf(i).kind = "str" /\ Len(ResetOf(i).chars) > 0
EndsWith(text, suffix) ==
    /\ Len(text) >= Len(suffix)
    /\ SubSeq(text, Len(text) - Len(suffix) + 1, Len(text)) = suffix

ShownTitle == IF payload.provider.kind = "absent" THEN <<"u", "n", "k", "n", "o", "w", "n">>
              ELSE IF payload.provider.chars = <<"c", "o", "d", "e", "x">> THEN <<"C", "o", "d", "e", "x">>
              ELSE IF payload.provider.chars = <<"z", "a", "i">> THEN <<"z", ".", "a", "i">>
              ELSE payload.provider.chars
\* The error's message, or unknown when it is missing.
ShownMessage == IF payload.error.message.kind = "str" THEN payload.error.message.chars
                ELSE <<"u", "n", "k", "n", "o", "w", "n">>

\* C13: for a provider record whose error is an object, the menu block is
\* the title, one error line and the closing separator, and the dashboard
\* card is the title and one error line: no Session or Weekly window, no
\* credits line and no account line, whatever else the record carries.
C13_ErrorShortCircuit ==
    payload.error.kind = "dict" =>
        /\ (menu_items # <<>>) =>
               /\ menu = <<>>
               /\ menu_items =
                      <<[item |-> "info", markup |-> TRUE,
                         label |-> <<"<", "b", ">">> \o ShownTitle \o <<"<", "/", "b", ">">>],
                        [item |-> "info", markup |-> FALSE,
                         label |-> <<" ", " ", "E", "r", "r", "o", "r", ":", " ">> \o ShownMessage],
                        [item |-> "separator", markup |-> FALSE, label |-> <<>>]>>
        /\ (content # <<>>) =>
               /\ card = <<>>
               /\ content =
                      <<[widget |-> "Frame",
                         body |-> <<[widget |-> "Label",
                                     label |-> <<"<", "s", "p", "a", "n", " ", "w", "e", "i", "g", "h", "t", "=", "'", "b", "o", "l", "d", "'", ">">> \o ShownTitle \o <<"<", "/", "s", "p", "a", "n", ">">>],
                                    [widget |-> "Label",
                                     label |-> <<"E", "r", "r", "o", "r", ":", " ">> \o ShownMessage]>>]>>

\* A record with an error object without message, and with usage, credits
\* and an account besides, rendered both ways.
C13_Witness ==
    /\ payload.error.kind = "dict"
    /\ payload.error.message.kind = "absent"
    /\ payload.primary.usedPercent.kind = "num"
    /\ payload.credits.kind = "num"
    /\ payload.email.chars # <<>>
    /\ Len(menu_items) = 3
    /\ Len(content) = 1
    /\ Len(content[1].body) = 2

\* C14: a left click on the status icon toggles the dashboard: when the click
\* has been delivered, the dashboard is hidden if it was showing when the
\* click began, the click's own focus-out included, and showing if it was
\* hidden.
C14_LeftClickToggles ==
    click.stage = "done" => (visible <=> ~click.was_showing)

\* C15: whenever the dashboard is visible, the payload list and the panel
\* text it stores are the tray's last_payloads and last_panel_text; and
\* last_payloads is a list whatever the usage command gave.
C15_VisibleNeverStale ==
    /\ DOMAIN tray.last_payloads = 1..Len(tray.last_payloads)
    /\ visible => /\ dashboard.all_payloads = tray.last_payloads
                  /\ dashboard.panel_text = tray.last_panel_text

\* C16: every call of update returns True, so the timer that run registered
\* is never removed; after it, last_panel_text is the stdout of the panel
\* command if that succeeded with a non-empty stdout and CodexBar ERR
\* otherwise, and a successful panel command brings back the ACTIVE status
\* and the configured icon.
C16_RefreshNeverStops ==
    /\ result.returned # "raised"
    /\ loop.timer # "removed"
    /\ loop.stage # "crashed"
    /\ result.returned = "True" =>
          IF result.panel.ok /\ Len(result.panel.stdout) > 0
          THEN /\ tray.last_panel_text = result.panel.stdout
               /\ tray.icon = "configured"
               /\ tray.backend = "appindicator" => tray.status = "ACTIVE"
          ELSE tray.last_panel_text = <<"C", "o", "d", "e", "x", "B", "a", "r", " ", "E", "R", "R">>

====
